---- MODULE Spec2Model ----
(***************************************************************************)
(* Model of Codigos/Extrator.py: the incremental CAGED ingestion run       *)
(* extract_from_ftp_with_7z (FTP walk year -> month -> archive -> member,  *)
(* ledger of processed month folders, durable copies, decoded tables).     *)
(*                                                                         *)
(* Text is modelled as sequences of one-character strings, so that the     *)
(* string operations of the code (strip, lower, endswith, isdigit, sorted, *)
(* splitext, the ledger's line format) are computed, not assumed.          *)
(***************************************************************************)
EXTENDS Integers, Sequences, FiniteSets, TLC

(* ------------------------------------------------------------------ *)
(* Bounds                                                              *)
(* ------------------------------------------------------------------ *)

\* number of successive runs of the script against the same remote and ledger
MaxRuns == 2

\* number of operations the environment lets fail, all runs together (replies
\* of the server other than success, errors of an archive, of a copy or of
\* the ledger write, a kill)
MaxFaults == 2

(* ------------------------------------------------------------------ *)
(* Text helpers (Python str semantics)                                 *)
(* ------------------------------------------------------------------ *)

\* the characters c of the model with c.isdigit(): the decimal digits and the
\* superscript digits of Latin-1 (U+00B2, U+00B3, U+00B9), which a listing
\* decoded as latin-1 can hold
Digits == {"0", "1", "2", "3", "4", "5", "6", "7", "8", "9", "²", "³", "¹"}

Whitespace == {" ", "\n", "\t", "\r"}

\* the characters of the model in code-point order
Alphabet == <<"\t", "\n", "\r", " ", ".", "/",
           "0", "1", "2", "3", "4", "5", "6", "7", "8", "9",
           "A", "B", "C", "S", "T", "V", "X", "Z", "_",
           "a", "b", "c", "d", "e", "f", "i", "l", "m", "n", "o", "r",
           "s", "t", "v", "x", "z", "²", "³", "¹">>

Ord(c) == CHOOSE i \in 1..Len(Alphabet) : Alphabet[i] = c

\* str.isdigit() on the characters of the model: non-empty, all digits
IsDigit(s) == Len(s) > 0 /\ \A i \in 1..Len(s) : s[i] \in Digits

StartsWith(s, p) == Len(s) >= Len(p) /\ SubSeq(s, 1, Len(p)) = p

EndsWith(s, p) == Len(s) >= Len(p) /\ SubSeq(s, Len(s) - Len(p) + 1, Len(s)) = p

LowerChar(c) ==
    CASE c = "A" -> "a" [] c = "B" -> "b" [] c = "C" -> "c" [] c = "S" -> "s"
      [] c = "T" -> "t" [] c = "V" -> "v" [] c = "X" -> "x" [] c = "Z" -> "z"
      [] OTHER -> c

Lower(s) == [i \in 1..Len(s) |-> LowerChar(s[i])]

\* s < t in Python's string order (lexicographic by code point)
RECURSIVE StrLess(_, _)
StrLess(s, t) ==
    IF t = <<>> THEN FALSE
    ELSE IF s = <<>> THEN TRUE
    ELSE IF Head(s) = Head(t) THEN StrLess(Tail(s), Tail(t))
    ELSE Ord(Head(s)) < Ord(Head(t))

RECURSIVE Insert(_, _)
Insert(x, sortedSeq) ==
    IF sortedSeq = <<>> THEN <<x>>
    ELSE IF StrLess(x, Head(sortedSeq)) THEN <<x>> \o sortedSeq
    ELSE <<Head(sortedSeq)>> \o Insert(x, Tail(sortedSeq))

\* iteration in listing order
Sorted_ListingOrder(l) == l

\* sorted(list_of_str): stable, keeps duplicates
RECURSIVE Sorted(_)
Sorted(l) == IF l = <<>> THEN <<>> ELSE Insert(l[Len(l)], Sorted(SubSeq(l, 1, Len(l) - 1)))

RECURSIVE LStrip(_)
LStrip(s) == IF s # <<>> /\ Head(s) \in Whitespace THEN LStrip(Tail(s)) ELSE s

RECURSIVE RStrip(_)
RStrip(s) ==
    IF s # <<>> /\ s[Len(s)] \in Whitespace THEN RStrip(SubSeq(s, 1, Len(s) - 1)) ELSE s

\* str.strip()
Strip(s) == RStrip(LStrip(s))

\* iterating a file opened in text mode (universal newlines): the lines, each
\* with its line end when present; "\r" and "\r\n" end a line as "\n" does and
\* are handed over as "\n"
RECURSIVE FileLines(_)
FileLines(content) ==
    IF content = <<>> THEN <<>>
    ELSE LET ends == {i \in 1..Len(content) : content[i] \in {"\n", "\r"}}
         IN  IF ends = {} THEN <<content>>
             ELSE LET n    == CHOOSE i \in ends : \A j \in ends : i <= j
                      last == IF /\ content[n] = "\r"
                                 /\ n < Len(content)
                                 /\ content[n + 1] = "\n"
                              THEN n + 1 ELSE n
                  IN  <<SubSeq(content, 1, n - 1) \o <<"\n">>>>
                         \o FileLines(SubSeq(content, last + 1, Len(content)))

\* the bytes of a character in UTF-8, the encoding of a text file opened
\* without an encoding argument; a byte below 0x80 is named by its character,
\* a byte from 0x80 on by its two hex digits
Utf8Char(c) ==
    CASE c = "²" -> <<"C2", "B2">>
      [] c = "³" -> <<"C2", "B3">>
      [] c = "¹" -> <<"C2", "B9">>
      [] OTHER   -> <<c>>

\* str.encode('utf-8')
RECURSIVE Utf8Encode(_)
Utf8Encode(s) == IF s = <<>> THEN <<>> ELSE Utf8Char(Head(s)) \o Utf8Encode(Tail(s))

Utf8Lead == {"C2"}

Utf8Continuation == {"B2", "B3", "B9"}

\* whether bytes.decode('utf-8') returns: every lead byte is followed by a
\* continuation byte, and no continuation byte stands alone
RECURSIVE Utf8Decodable(_)
Utf8Decodable(b) ==
    IF b = <<>> THEN TRUE
    ELSE IF Head(b) \in Utf8Lead
         THEN /\ Len(b) >= 2
              /\ b[2] \in Utf8Continuation
              /\ Utf8Decodable(SubSeq(b, 3, Len(b)))
    ELSE IF Head(b) \in Utf8Continuation THEN FALSE
    ELSE Utf8Decodable(Tail(b))

\* bytes.decode('utf-8') of bytes it accepts
RECURSIVE Utf8Decode(_)
Utf8Decode(b) ==
    IF b = <<>> THEN <<>>
    ELSE IF Head(b) \in Utf8Lead
         THEN <<CHOOSE c \in {"²", "³", "¹"} : Utf8Char(c) = <<b[1], b[2]>>>>
                 \o Utf8Decode(SubSeq(b, 3, Len(b)))
    ELSE <<Head(b)>> \o Utf8Decode(Tail(b))

\* os.path.splitext (posixpath): the extension starts at the last dot, unless
\* that dot only belongs to the leading dots of the name
SplitExt(p) ==
    LET seps  == {i \in 1..Len(p) : p[i] = "/"}
        dots  == {i \in 1..Len(p) : p[i] = "."}
        sepI  == IF seps = {} THEN 0 ELSE CHOOSE i \in seps : \A j \in seps : j <= i
        dotI  == IF dots = {} THEN 0 ELSE CHOOSE i \in dots : \A j \in dots : j <= i
        split == /\ dotI > sepI
                 /\ \E k \in (sepI + 1)..(dotI - 1) : p[k] # "."
    IN  IF split THEN <<SubSeq(p, 1, dotI - 1), SubSeq(p, dotI, Len(p))>>
        ELSE <<p, <<>>>>

\* posixpath.join(a, b) for a relative b and a without trailing slash
PathJoin(a, b) == a \o <<"/">> \o b

(* ------------------------------------------------------------------ *)
(* Parameters of the run (the example use at the end of the script)    *)
(* ------------------------------------------------------------------ *)

\* base_ftp_path: one directory below the login directory
base_ftp_path == <<"b", "a", "s", "e">>

\* output_dir
output_dir == <<"d", "a", "d", "o", "s">>

(* ------------------------------------------------------------------ *)
(* Names occurring in the remote datasets of the model                 *)
(* ------------------------------------------------------------------ *)

Y2023 == <<"2", "0", "2", "3">>
Y2024 == <<"2", "0", "2", "4">>
Y2025 == <<"2", "0", "2", "5">>
M202312 == <<"2", "0", "2", "3", "1", "2">>
M202401 == <<"2", "0", "2", "4", "0", "1">>
M202402 == <<"2", "0", "2", "4", "0", "2">>
M202501 == <<"2", "0", "2", "5", "0", "1">>
NReadme == <<"r", "e", "a", "d", "m", "e", ".", "t", "x", "t">>
N2024x == <<"2", "0", "2", "4", "x">>
N2024ab == <<"2", "0", "2", "4", "a", "b">>
N24 == <<"2", "4">>
M2024s12 == <<"2", "0", "2", "4", "¹", "²">>
N202413x == <<"2", "0", "2", "4", "1", "3", "x">>
NFile1 == <<"f", "i", "l", "e", "1", ".", "7", "z">>
NArcA == <<"A", ".", "7", "Z">>
NArcB == <<"b", ".", "7", "z">>
NArcC == <<"c", ".", "7", "z">>
NNotes == <<"n", "o", "t", "e", "s", ".", "t", "x", "t">>
NACsv == <<"a", ".", "c", "s", "v">>
NBTxt == <<"B", ".", "T", "X", "T">>
NCTxt == <<"c", ".", "t", "x", "t">>
NXDat == <<"x", ".", "d", "a", "t">>

Ext7z  == <<".", "7", "z">>
ExtCsv == <<".", "c", "s", "v">>
ExtTxt == <<".", "t", "x", "t">>

\* the years the listing of the base directory is narrowed to
AllowedYears == {Y2024, Y2025}

(* ------------------------------------------------------------------ *)
(* Remote datasets                                                     *)
(*   dirs : path of a directory (from the login directory) -> listing  *)
(*   arch : path of an archive -> its members, in os.listdir order;    *)
(*          a member has a name, a content and the set of parse        *)
(*          attempts (1: ';' latin1, 2: ',' utf-8, 3: ';' cp1252)      *)
(*          that pandas completes on that content                      *)
(* ------------------------------------------------------------------ *)

Member(name, content, parses) == [name |-> name, content |-> content, parses |-> parses]

BaseDir == <<base_ftp_path>>

\* base/2024/202401/file1.7z holding a.csv, and an empty base/2024/202402/
TreeE2E ==
    [dirs |-> (<<>> :> <<base_ftp_path>>)
           @@ (BaseDir :> <<Y2024>>)
           @@ (BaseDir \o <<Y2024>> :> <<M202401, M202402>>)
           @@ (BaseDir \o <<Y2024, M202401>> :> <<NFile1>>)
           @@ (BaseDir \o <<Y2024, M202402>> :> <<>>),
     arch |-> (BaseDir \o <<Y2024, M202401, NFile1>> :> <<Member(NACsv, "a", {1, 3})>>)]

\* unsorted listings, names the filters must reject, two archives in one month
\* that both hold a member a.csv, an upper-case archive suffix
TreeMulti ==
    [dirs |-> (<<>> :> <<base_ftp_path>>)
           @@ (BaseDir :> <<Y2025, NReadme, Y2024, Y2023, N2024x>>)
           @@ (BaseDir \o <<Y2023>> :> <<M202312>>)
           @@ (BaseDir \o <<Y2023, M202312>> :> <<>>)
           @@ (BaseDir \o <<Y2024>> :> <<M202402, N202413x, M202401, M202501>>)
           @@ (BaseDir \o <<Y2024, M202401>> :> <<NArcC>>)
           @@ (BaseDir \o <<Y2024, M202402>> :> <<NArcB, NNotes, NArcA>>)
           @@ (BaseDir \o <<Y2024, M202501>> :> <<NArcC>>)
           @@ (BaseDir \o <<Y2025>> :> <<M202501>>)
           @@ (BaseDir \o <<Y2025, M202501>> :> <<>>),
     arch |-> (BaseDir \o <<Y2024, M202402, NArcA>> :>
                   <<Member(NACsv, "A/a", {2, 3}), Member(NXDat, "A/x", {1})>>)
           @@ (BaseDir \o <<Y2024, M202402, NArcB>> :>
                   <<Member(NBTxt, "b/B", {}), Member(NACsv, "b/a", {1})>>)
           @@ (BaseDir \o <<Y2024, M202401, NArcC>> :> <<Member(NCTxt, "c/c", {3})>>)
           @@ (BaseDir \o <<Y2024, M202501, NArcC>> :> <<Member(NCTxt, "c/c", {3})>>)]

\* a base listing without any year the run visits: a year outside the allowed
\* ones, names that are too long or too short, a month name, a file name
TreeFilter ==
    [dirs |-> (<<>> :> <<base_ftp_path>>)
           @@ (BaseDir :> <<Y2023, N2024x, N24, M202401, N2024ab, NReadme>>)
           @@ (BaseDir \o <<Y2023>> :> <<M202312>>)
           @@ (BaseDir \o <<Y2023, M202312>> :> <<NArcC>>),
     arch |-> (BaseDir \o <<Y2023, M202312, NArcC>> :> <<Member(NCTxt, "c/c", {3})>>)]

\* a year whose listing holds a name ending in superscript digits
TreeLatin1 ==
    [dirs |-> (<<>> :> <<base_ftp_path>>)
           @@ (BaseDir :> <<Y2024>>)
           @@ (BaseDir \o <<Y2024>> :> <<M2024s12, M202401>>)
           @@ (BaseDir \o <<Y2024, M202401>> :> <<>>)
           @@ (BaseDir \o <<Y2024, M2024s12>> :> <<>>),
     arch |-> <<>>]

Trees == {TreeE2E, TreeMulti, TreeFilter, TreeLatin1}

(* ------------------------------------------------------------------ *)
(* Decisions of the code, one operator per condition or expression     *)
(* ------------------------------------------------------------------ *)

\* the replies an FTP command can end with: completed, rejected with a
\* permanent error (ftplib.error_perm, 5xx), or any other member of
\* ftplib.all_errors (421, a dropped or timed-out connection, EOF)
FtpOutcomes == {"ok", "perm", "conn"}

\* what QUIT can end with: completed, refused with a permanent (5xx) or a
\* transient (4xx) reply, or the connection dropped
QuitOutcomes == {"ok", "perm", "temp", "drop"}

\* FTP.__exit__ swallows OSError and EOFError of quit() and nothing else
QuitRaises(o) == o \in {"perm", "temp"}

\* what os.path.exists(path) can answer: False for a path that is not there,
\* and for a path that is there True, or False when the path cannot be
\* stat-ed (os.path.exists turns the OSError of os.stat into False)
ExistsAnswers(there) == IF there THEN {TRUE, FALSE} ELSE {FALSE}

\* get_ftp_file_list without its except clause
NlstCaught_Not(e) == FALSE

\* get_ftp_file_list: the except clause around nlst()
NlstCaught(e) == e = "perm"

\* the navigation handlers catching nothing
NavCaught_Not(e) == FALSE

\* the except clauses around ftp.cwd(year) and ftp.cwd(month_folder)
NavCaught(e) == e = "perm"

\* the year filter without the restriction to 2024 and 2025
IsYearDir_NoAllow(d) == IsDigit(d) /\ Len(d) = 4

\* the year filter of the base listing
IsYearDir(d) == IsDigit(d) /\ Len(d) = 4 /\ d \in AllowedYears

\* the month filter of a year's listing
IsMonthDir(d, year) == IsDigit(d) /\ Len(d) = 6 /\ StartsWith(d, year)

\* the archive filter of a month's listing
Is7z(f) == EndsWith(Lower(f), Ext7z)

\* the member filter of an extracted archive
Qualifies(f) == EndsWith(Lower(f), ExtCsv) \/ EndsWith(Lower(f), ExtTxt)

\* a list comprehension [d for d in l if P(d)]
RECURSIVE FilterYears(_)
FilterYears(l) ==
    IF l = <<>> THEN <<>>
    ELSE (IF IsYearDir(Head(l)) THEN <<Head(l)>> ELSE <<>>) \o FilterYears(Tail(l))

RECURSIVE FilterMonths(_, _)
FilterMonths(l, year) ==
    IF l = <<>> THEN <<>>
    ELSE (IF IsMonthDir(Head(l), year) THEN <<Head(l)>> ELSE <<>>) \o FilterMonths(Tail(l), year)

RECURSIVE Filter7z(_)
Filter7z(l) ==
    IF l = <<>> THEN <<>>
    ELSE (IF Is7z(Head(l)) THEN <<Head(l)>> ELSE <<>>) \o Filter7z(Tail(l))

\* full_month_path_id
FolderKey(year, month_folder) == PathJoin(year, month_folder)

\* the test that skips a month
AlreadyProcessed(key, processed) == key \in processed

\* the bytes appended to the ledger file for a key: the text key + "\n"
\* through the encoder of the file
LedgerLine(key) == Utf8Encode(key \o <<"\n">>)

\* whether reading the ledger file as text returns (it raises
\* UnicodeDecodeError on bytes that are not UTF-8)
LedgerReadable(content) == Utf8Decodable(content)

\* the set read from the bytes of the ledger file at the start of a run
LoadLedger(content) ==
    LET lines == FileLines(Utf8Decode(content))
    IN  {Strip(lines[i]) : i \in 1..Len(lines)}

\* the durable copy named without the month prefix
PermanentFilename_NoMonth(file_name, month_folder) == file_name

\* save_extracted_file: the name and the path of the durable copy
PermanentFilename(file_name, month_folder) ==
    LET parts == SplitExt(file_name)
    IN  month_folder \o <<"_">> \o parts[1] \o parts[2]

PermanentFilepath(file_name, month_folder) ==
    PathJoin(output_dir, PermanentFilename(file_name, month_folder))

\* a key made of the member name only
TableKey_MemberOnly(month_folder, extracted_file) == extracted_file

\* the key of a table in all_dataframes
TableKey(month_folder, extracted_file) == month_folder \o <<"_">> \o extracted_file

\* the attempts nested in another order: (';', cp1252) before (',', utf-8)
Decode_Cp1252Second(parses) ==
    IF 1 \in parses THEN 1
    ELSE IF 3 \in parses THEN 3
    ELSE IF 2 \in parses THEN 2
    ELSE 0

\* the last attempt taken as successful whatever it does
Decode_LastAlwaysParses(parses) ==
    IF 1 \in parses THEN 1
    ELSE IF 2 \in parses THEN 2
    ELSE 3

\* the nested read_csv attempts: 1 (';', latin1), then 2 (',', utf-8), then
\* 3 (';', cp1252); 0 when all three raise
Decode(parses) ==
    IF 1 \in parses THEN 1
    ELSE IF 2 \in parses THEN 2
    ELSE IF 3 \in parses THEN 3
    ELSE 0

\* the extraction moved out of its try block
ExtractCaught_Not(e) == FALSE

\* the read_csv attempts that are executed, in order: the next one runs only
\* in the except clause of the one before
DecodeAttempts(parses) ==
    IF 1 \in parses THEN <<1>>
    ELSE IF 2 \in parses THEN <<1, 2>>
    ELSE <<1, 2, 3>>

\* what the try block of save_extracted_file (shutil.copy2, which is copyfile
\* then copystat, and os.path.getsize) can end with: completed, raised before
\* anything was written to the destination, raised after a part of it was
\* written, or raised after all of it was written
CopyOutcomes == {"ok", "fail", "partial", "stat"}

\* a file of the output directory: the content of the member it was copied
\* from, and whether all of it is there
DurableFile(content, whole) == [content |-> content, whole |-> whole]

\* the output directory after shutil.copy2 ended with o
Copied(o, name, content, dir) ==
    CASE o \in {"ok", "stat"} -> (name :> DurableFile(content, TRUE)) @@ dir
      [] o = "partial"        -> (name :> DurableFile(content, FALSE)) @@ dir
      [] OTHER                -> dir

\* "if permanent_file_path:" after save_extracted_file, which returns the
\* path when the copy succeeded and None when it raised
SavedOk(o) == o = "ok"

\* whether an exception raised while opening or extracting the archive is
\* handled at the archive (except Exception)
ExtractCaught(e) == TRUE

(* ------------------------------------------------------------------ *)
(* State                                                               *)
(* ------------------------------------------------------------------ *)

VARIABLES
    tree,               \* the remote dataset (unchanged during a behaviour)
    onDisk,             \* which of "output_dir" and "ledger" exist (durable)
    ledgerFile,         \* the bytes of processed_folders_file (durable)
    store,              \* output_dir: name of a durable copy -> content (durable)
    run,                \* number of the current run of the script
    pc,                 \* position of the run in extract_from_ftp_with_7z
    status,             \* "running", "Completed", "Aborted" (both return), "Raised"
                        \* (an exception leaves the function) or "Crashed"
    result,             \* the pair returned by the run
    cwd,                \* current directory of the FTP session
    processed_folders,  \* the in-memory set of processed folder keys
    year_dirs, yi,      \* filtered base listing; index into sorted(year_dirs)
    month_dirs, mi,     \* filtered year listing; index into sorted(month_dirs)
    sevenz_files, ai,   \* filtered month listing; index of the current archive
    extracted_files, ei,\* listing of the extraction directory; current index
    all_dataframes,     \* table key -> decoded table
    saved_files,        \* paths of the durable copies made by this run
    entered,            \* history: <<year, month>> of every cwd(month) issued in this run
    downloads,          \* history: path of every RETR issued in this run
    attempted,          \* history: archives of the current month whose processing ended
    faults,             \* history: the failures met in this run
    appended,           \* history: <<year, month>> of every ledger line written in this run
    committedBefore,    \* history: the <<year, month>> of the remote whose FolderKey was
                        \* a line of the ledger file when the current run started
    prev                \* history: whether the previous run ended Completed without
                        \* any failure (clean); when it ended otherwise inside a
                        \* month some of whose archives had been processed, that
                        \* <<year, month>> (inside) and those archives (attempted);
                        \* the number of failures of all earlier runs (failures)

vars == <<tree, onDisk, ledgerFile, store, run, pc, status, result, cwd, processed_folders,
          year_dirs, yi, month_dirs, mi, sevenz_files, ai, extracted_files, ei,
          all_dataframes, saved_files, entered, downloads, attempted, faults,
          appended, committedBefore, prev>>

loopVars == <<year_dirs, yi, month_dirs, mi, sevenz_files, ai, extracted_files, ei>>
dataVars == <<all_dataframes, saved_files, store>>
histVars == <<entered, downloads, attempted, appended, committedBefore, prev>>

Fault(op, kind, at) == [op |-> op, kind |-> kind, at |-> at]

CurYear    == Sorted(year_dirs)[yi]
CurMonth   == Sorted(month_dirs)[mi]
CurArchive == sevenz_files[ai]
CurFile    == extracted_files[ei]
CurKey     == FolderKey(CurYear, CurMonth)

\* what the remote answers to CWD name / RETR name in the current directory
CwdOutcomes(name)  == IF cwd \o <<name>> \in DOMAIN tree.dirs THEN FtpOutcomes ELSE {"perm", "conn"}
RetrOutcomes(name) == IF cwd \o <<name>> \in DOMAIN tree.arch THEN FtpOutcomes ELSE {"perm", "conn"}

\* ftp.nlst() in the current directory, through get_ftp_file_list
Listing(o) == IF o = "ok" THEN tree.dirs[cwd] ELSE <<>>

\* a cwd('..') that leaves the session where it was
CdUp_Stay(path) == path

\* the directory the session is in after ftp.cwd('..')
CdUp(path) == SubSeq(path, 1, Len(path) - 1)

Init ==
    /\ tree \in Trees
    /\ onDisk = {}
    /\ ledgerFile = <<>>
    /\ store = <<>>
    /\ run = 1
    /\ pc = "load"
    /\ status = "running"
    /\ result = [tables |-> <<>>, files |-> <<>>]
    /\ cwd = <<>>
    /\ processed_folders = {}
    /\ year_dirs = <<>> /\ yi = 0
    /\ month_dirs = <<>> /\ mi = 0
    /\ sevenz_files = <<>> /\ ai = 0
    /\ extracted_files = <<>> /\ ei = 0
    /\ all_dataframes = <<>>
    /\ saved_files = <<>>
    /\ entered = {}
    /\ downloads = <<>>
    /\ attempted = {}
    /\ faults = {}
    /\ appended = <<>>
    /\ committedBefore = {}
    /\ prev = [clean |-> FALSE, inside |-> <<>>, attempted |-> {},
               failures |-> 0]

\* the outer except clauses: log, then return all_dataframes, saved_files
Abort(op, kind, at) ==
    /\ faults' = faults \cup {Fault(op, kind, at)}
    /\ status' = "Aborted"
    /\ pc' = "done"
    /\ result' = [tables |-> all_dataframes, files |-> saved_files]

(* ------------------------------------------------------------------ *)
(* Steps of a run                                                      *)
(* ------------------------------------------------------------------ *)

\* an exception raised before the try block: it leaves the function, nothing
\* is returned
Raise(op, kind) ==
    /\ faults' = faults \cup {Fault(op, kind, <<>>)}
    /\ status' = "Raised"
    /\ pc' = "done"
    /\ UNCHANGED <<result, processed_folders>>

\* the lines before the try block: os.makedirs(output_dir) when
\* os.path.exists does not see it (FileExistsError when it is there), then,
\* when os.path.exists sees the ledger file, its lines read into
\* processed_folders, which stays empty otherwise; an OSError of makedirs or
\* of open/read and the UnicodeDecodeError of the read are not handled
Load ==
    /\ pc = "load"
    /\ \E dirSeen \in ExistsAnswers("output_dir" \in onDisk),
          ledSeen \in ExistsAnswers("ledger" \in onDisk),
          mk \in {"ok", "fail"}, rd \in {"ok", "fail"} :
          IF ~dirSeen /\ ("output_dir" \in onDisk \/ mk = "fail")
          THEN /\ ledSeen = ("ledger" \in onDisk) /\ rd = "ok"
               /\ Raise("makedirs", IF "output_dir" \in onDisk THEN "exists" ELSE "oserror")
               /\ UNCHANGED onDisk
          ELSE /\ dirSeen => mk = "ok"
               /\ onDisk' = onDisk \cup {"output_dir"}
               /\ IF ledSeen /\ rd = "fail"
                  THEN Raise("ledger_read", "oserror")
                  ELSE IF ledSeen /\ ~LedgerReadable(ledgerFile)
                  THEN Raise("ledger_decode", "utf-8")
                  ELSE /\ ~ledSeen => rd = "ok"
                       /\ processed_folders' =
                              IF ledSeen THEN LoadLedger(ledgerFile) ELSE {}
                       /\ faults' = IF "ledger" \in onDisk /\ ~ledSeen
                                    THEN faults \cup {Fault("ledger_exists", "hidden", <<>>)}
                                    ELSE faults
                       /\ pc' = "connect"
                       /\ UNCHANGED <<status, result>>
    /\ UNCHANGED <<tree, ledgerFile, run, cwd, loopVars, dataVars, histVars>>

\* ftplib.FTP(ftp_host): any failure is handled by the outer except
Connect ==
    /\ pc = "connect"
    /\ \E o \in {"ok", "conn"} :
          IF o = "ok"
          THEN /\ pc' = "login"
               /\ UNCHANGED <<status, result, faults>>
          ELSE Abort("connect", o, <<>>)
    /\ UNCHANGED <<tree, onDisk, ledgerFile, run, cwd, processed_folders, loopVars, dataVars, histVars>>

\* ftp.login(): any failure is handled by the outer except
Login ==
    /\ pc = "login"
    /\ \E o \in FtpOutcomes :
          IF o = "ok"
          THEN /\ pc' = "cwd_base"
               /\ UNCHANGED <<status, result, faults>>
          ELSE Abort("login", o, <<>>)
    /\ UNCHANGED <<tree, onDisk, ledgerFile, run, cwd, processed_folders, loopVars, dataVars, histVars>>

\* CwdBase without the return of its error_perm handler: the run goes on in
\* the login directory
CwdBase_NoReturn ==
    /\ pc = "cwd_base"
    /\ \E o \in CwdOutcomes(base_ftp_path) :
          CASE o = "ok" ->
                   /\ cwd' = cwd \o <<base_ftp_path>>
                   /\ pc' = "list_years"
                   /\ UNCHANGED <<status, result, faults>>
            [] o = "perm" ->
                   /\ faults' = faults \cup {Fault("cwd_base", o, cwd \o <<base_ftp_path>>)}
                   /\ pc' = "list_years"
                   /\ UNCHANGED <<cwd, status, result>>
            [] OTHER ->
                   /\ Abort("cwd_base", o, cwd \o <<base_ftp_path>>)
                   /\ UNCHANGED cwd
    /\ UNCHANGED <<tree, onDisk, ledgerFile, run, processed_folders, loopVars, dataVars, histVars>>

\* ftp.cwd(base_ftp_path): error_perm returns {}, []; anything else reaches
\* the outer except
CwdBase ==
    /\ pc = "cwd_base"
    /\ \E o \in CwdOutcomes(base_ftp_path) :
          CASE o = "ok" ->
                   /\ cwd' = cwd \o <<base_ftp_path>>
                   /\ pc' = "list_years"
                   /\ UNCHANGED <<status, result, faults>>
            [] o = "perm" ->
                   /\ faults' = faults \cup {Fault("cwd_base", o, cwd \o <<base_ftp_path>>)}
                   /\ status' = "Aborted"
                   /\ pc' = "done"
                   /\ result' = [tables |-> <<>>, files |-> <<>>]
                   /\ UNCHANGED cwd
            [] OTHER ->
                   /\ Abort("cwd_base", o, cwd \o <<base_ftp_path>>)
                   /\ UNCHANGED cwd
    /\ UNCHANGED <<tree, onDisk, ledgerFile, run, processed_folders, loopVars, dataVars, histVars>>

\* year_dirs = [d for d in get_ftp_file_list(ftp) if ...]
ListYears ==
    /\ pc = "list_years"
    /\ \E o \in FtpOutcomes :
          IF o = "ok" \/ NlstCaught(o)
          THEN /\ year_dirs' = FilterYears(Listing(o))
               /\ yi' = 1
               /\ pc' = "year"
               /\ faults' = IF o = "ok" THEN faults ELSE faults \cup {Fault("nlst", o, cwd)}
               /\ UNCHANGED <<status, result>>
          ELSE /\ Abort("nlst", o, cwd)
               /\ UNCHANGED <<year_dirs, yi>>
    /\ UNCHANGED <<tree, onDisk, ledgerFile, run, cwd, processed_folders, month_dirs, mi,
                   sevenz_files, ai, extracted_files, ei, dataVars, histVars>>

\* for year in sorted(year_dirs): ftp.cwd(year)
EnterYear ==
    /\ pc = "year"
    /\ yi <= Len(year_dirs)
    /\ \E o \in CwdOutcomes(CurYear) :
          CASE o = "ok" ->
                   /\ cwd' = cwd \o <<CurYear>>
                   /\ pc' = "list_months"
                   /\ UNCHANGED <<yi, status, result, faults>>
            [] o # "ok" /\ NavCaught(o) ->
                   /\ faults' = faults \cup {Fault("cwd_year", o, cwd \o <<CurYear>>)}
                   /\ yi' = yi + 1
                   /\ UNCHANGED <<cwd, pc, status, result>>
            [] OTHER ->
                   /\ Abort("cwd_year", o, cwd \o <<CurYear>>)
                   /\ UNCHANGED <<cwd, yi>>
    /\ UNCHANGED <<tree, onDisk, ledgerFile, run, processed_folders, year_dirs, month_dirs, mi,
                   sevenz_files, ai, extracted_files, ei, dataVars, histVars>>

\* the loop over the years is exhausted: return all_dataframes, saved_files
\* The with block is left, FTP.__exit__ sends QUIT: a reply of refusal raises
\* out of __exit__ into the except clause of the run, a dropped connection is
\* swallowed there
Finish ==
    /\ pc = "year"
    /\ yi > Len(year_dirs)
    /\ \E o \in QuitOutcomes :
          IF QuitRaises(o)
          THEN Abort("quit", o, cwd)
          ELSE /\ status' = "Completed"
               /\ pc' = "done"
               /\ result' = [tables |-> all_dataframes, files |-> saved_files]
               /\ UNCHANGED faults
    /\ UNCHANGED <<tree, onDisk, ledgerFile, run, cwd, processed_folders, loopVars, dataVars,
                   histVars>>

\* month_dirs = [d for d in get_ftp_file_list(ftp) if ...]
ListMonths ==
    /\ pc = "list_months"
    /\ \E o \in FtpOutcomes :
          IF o = "ok" \/ NlstCaught(o)
          THEN /\ month_dirs' = FilterMonths(Listing(o), CurYear)
               /\ mi' = 1
               /\ pc' = "month"
               /\ faults' = IF o = "ok" THEN faults ELSE faults \cup {Fault("nlst", o, cwd)}
               /\ UNCHANGED <<status, result>>
          ELSE /\ Abort("nlst", o, cwd)
               /\ UNCHANGED <<month_dirs, mi>>
    /\ UNCHANGED <<tree, onDisk, ledgerFile, run, cwd, processed_folders, year_dirs, yi,
                   sevenz_files, ai, extracted_files, ei, dataVars, histVars>>

\* a month whose key is in processed_folders: continue
SkipMonth ==
    /\ pc = "month"
    /\ mi <= Len(month_dirs)
    /\ AlreadyProcessed(CurKey, processed_folders)
    /\ mi' = mi + 1
    /\ UNCHANGED <<tree, onDisk, ledgerFile, run, pc, status, result, cwd, processed_folders,
                   year_dirs, yi, month_dirs, sevenz_files, ai, extracted_files, ei,
                   dataVars, faults, histVars>>

\* ftp.cwd(month_folder)
EnterMonth ==
    /\ pc = "month"
    /\ mi <= Len(month_dirs)
    /\ ~AlreadyProcessed(CurKey, processed_folders)
    /\ entered' = entered \cup {<<CurYear, CurMonth>>}
    /\ attempted' = {}
    /\ \E o \in CwdOutcomes(CurMonth) :
          CASE o = "ok" ->
                   /\ cwd' = cwd \o <<CurMonth>>
                   /\ pc' = "list_archives"
                   /\ UNCHANGED <<mi, status, result, faults>>
            [] o # "ok" /\ NavCaught(o) ->
                   /\ faults' = faults \cup {Fault("cwd_month", o, cwd \o <<CurMonth>>)}
                   /\ mi' = mi + 1
                   /\ UNCHANGED <<cwd, pc, status, result>>
            [] OTHER ->
                   /\ Abort("cwd_month", o, cwd \o <<CurMonth>>)
                   /\ UNCHANGED <<cwd, mi>>
    /\ UNCHANGED <<tree, onDisk, ledgerFile, run, processed_folders, year_dirs, yi, month_dirs,
                   sevenz_files, ai, extracted_files, ei, dataVars,
                   downloads, appended, committedBefore, prev>>

\* the loop over the months is exhausted: ftp.cwd('..') back to the base
\* directory; a failure reaches the outer except
LeaveYear ==
    /\ pc = "month"
    /\ mi > Len(month_dirs)
    /\ \E o \in FtpOutcomes :
          IF o = "ok"
          THEN /\ cwd' = CdUp(cwd)
               /\ yi' = yi + 1
               /\ pc' = "year"
               /\ UNCHANGED <<status, result, faults>>
          ELSE /\ Abort("cwd_up_year", o, cwd)
               /\ UNCHANGED <<cwd, yi>>
    /\ UNCHANGED <<tree, onDisk, ledgerFile, run, processed_folders, year_dirs, month_dirs, mi,
                   sevenz_files, ai, extracted_files, ei, dataVars, histVars>>

\* sevenz_files = [f for f in get_ftp_file_list(ftp) if f.lower().endswith('.7z')]
ListArchives ==
    /\ pc = "list_archives"
    /\ \E o \in FtpOutcomes :
          IF o = "ok" \/ NlstCaught(o)
          THEN /\ sevenz_files' = Filter7z(Listing(o))
               /\ ai' = 1
               /\ pc' = "archive"
               /\ attempted' = {}
               /\ faults' = IF o = "ok" THEN faults ELSE faults \cup {Fault("nlst", o, cwd)}
               /\ UNCHANGED <<status, result>>
          ELSE /\ Abort("nlst", o, cwd)
               /\ UNCHANGED <<sevenz_files, ai, attempted>>
    /\ UNCHANGED <<tree, onDisk, ledgerFile, run, cwd, processed_folders, year_dirs, yi,
                   month_dirs, mi, extracted_files, ei, dataVars,
                   entered, downloads, appended, committedBefore, prev>>

\* tempfile.TemporaryDirectory(), open(..., 'wb') and ftp.retrbinary, which
\* sends TYPE I and PASV before RETR name: all of it is outside the try block
\* of the archive, so any failure reaches the outer except clauses; a failure
\* of what comes before RETR ends the run with no download issued
Fetch ==
    /\ pc = "archive"
    /\ ai <= Len(sevenz_files)
    /\ \E o \in {"setup"} \cup RetrOutcomes(CurArchive) :
          CASE o = "setup" ->
                   /\ Abort("retr_setup", "fail", cwd \o <<CurArchive>>)
                   /\ UNCHANGED downloads
            [] o = "ok" ->
                   /\ downloads' = Append(downloads, cwd \o <<CurArchive>>)
                   /\ pc' = "extract"
                   /\ UNCHANGED <<status, result, faults>>
            [] OTHER ->
                   /\ downloads' = Append(downloads, cwd \o <<CurArchive>>)
                   /\ Abort("retr", o, cwd \o <<CurArchive>>)
    /\ UNCHANGED <<tree, onDisk, ledgerFile, run, cwd, processed_folders, loopVars, dataVars,
                   entered, attempted, appended, committedBefore, prev>>

\* py7zr extractall into a second temporary directory, then os.listdir;
\* an exception ends the processing of this archive only
Extract ==
    /\ pc = "extract"
    /\ \E o \in {"ok", "bad"} :
          LET members == tree.arch[cwd \o <<CurArchive>>]
          IN  CASE o = "ok" /\ members # <<>> ->
                       /\ extracted_files' = [i \in 1..Len(members) |-> members[i].name]
                       /\ ei' = 1
                       /\ pc' = "member"
                       /\ UNCHANGED <<ai, attempted, status, result, faults>>
                [] o = "ok" /\ members = <<>> ->
                       /\ extracted_files' = <<>>
                       /\ ai' = ai + 1
                       /\ attempted' = attempted \cup {CurArchive}
                       /\ pc' = "archive"
                       /\ UNCHANGED <<ei, status, result, faults>>
                [] o = "bad" /\ ExtractCaught(o) ->
                       /\ faults' = faults \cup {Fault("extract", o, cwd \o <<CurArchive>>)}
                       /\ ai' = ai + 1
                       /\ attempted' = attempted \cup {CurArchive}
                       /\ pc' = "archive"
                       /\ UNCHANGED <<extracted_files, ei, status, result>>
                [] OTHER ->
                       /\ Abort("extract", o, cwd \o <<CurArchive>>)
                       /\ UNCHANGED <<extracted_files, ei, ai, attempted>>
    /\ UNCHANGED <<tree, onDisk, ledgerFile, run, cwd, processed_folders, year_dirs, yi,
                   month_dirs, mi, sevenz_files, dataVars,
                   entered, downloads, appended, committedBefore, prev>>

\* the end of one iteration of "for extracted_file in extracted_files"
NextMember ==
    IF ei < Len(extracted_files)
    THEN /\ ei' = ei + 1
         /\ UNCHANGED <<pc, ai, attempted>>
    ELSE /\ ai' = ai + 1
         /\ attempted' = attempted \cup {CurArchive}
         /\ pc' = "archive"
         /\ UNCHANGED ei

CurMember ==
    LET members == tree.arch[cwd \o <<CurArchive>>]
    IN  members[CHOOSE i \in 1..Len(members) : members[i].name = CurFile]

\* an extracted file that is neither .csv nor .txt
SkipMember ==
    /\ pc = "member"
    /\ ~Qualifies(CurFile)
    /\ NextMember
    /\ UNCHANGED <<tree, onDisk, ledgerFile, run, status, result, cwd, processed_folders,
                   year_dirs, yi, month_dirs, mi, sevenz_files, extracted_files,
                   dataVars, faults, entered, downloads, appended, committedBefore, prev>>

\* save_extracted_file, then, when it returned a path, the read_csv attempts
\* on the durable copy; when copy2 raised, what it had written stays. When
\* os.path.exists does not see output_dir, os.makedirs raises outside the try
\* block of save_extracted_file, into the except clause of the archive, which
\* ends the processing of the archive
SaveMember ==
    /\ pc = "member"
    /\ Qualifies(CurFile)
    /\ \E dirSeen \in ExistsAnswers("output_dir" \in onDisk), o \in CopyOutcomes :
          LET path   == PermanentFilepath(CurFile, CurMonth)
              d      == Decode(CurMember.parses)
              tried  == DecodeAttempts(CurMember.parses)
              copyEx == IF o = "ok" THEN {} ELSE {Fault("save", o, path)}
          IN  CASE ~dirSeen /\ ExtractCaught("exists") ->
                       /\ o = "ok"
                       /\ faults' = faults \cup {Fault("save_raise", "makedirs", cwd \o <<CurArchive, CurFile>>)}
                       /\ ai' = ai + 1
                       /\ attempted' = attempted \cup {CurArchive}
                       /\ pc' = "archive"
                       /\ UNCHANGED <<ei, all_dataframes, saved_files, store, status, result>>
                [] ~dirSeen /\ ~ExtractCaught("exists") ->
                       /\ o = "ok"
                       /\ Abort("save_raise", "makedirs", cwd \o <<CurArchive, CurFile>>)
                       /\ UNCHANGED <<ei, ai, attempted, all_dataframes, saved_files, store>>
                [] dirSeen /\ SavedOk(o) ->
                       /\ store' = Copied(o, PermanentFilename(CurFile, CurMonth),
                                          CurMember.content, store)
                       /\ saved_files' = Append(saved_files, path)
                       /\ all_dataframes' =
                              IF d # 0
                              THEN (TableKey(CurMonth, CurFile) :>
                                        [content |-> CurMember.content, attempt |-> d])
                                   @@ all_dataframes
                              ELSE all_dataframes
                       /\ faults' = faults \cup copyEx
                              \cup {Fault("read_csv", tried[i], path) :
                                       i \in {j \in 1..Len(tried) : tried[j] # d}}
                              \cup (IF d # 0 THEN {} ELSE {Fault("decode", "all", path)})
                       /\ NextMember
                       /\ UNCHANGED <<status, result>>
                [] OTHER ->
                       /\ faults' = faults \cup copyEx
                       /\ store' = Copied(o, PermanentFilename(CurFile, CurMonth),
                                          CurMember.content, store)
                       /\ NextMember
                       /\ UNCHANGED <<all_dataframes, saved_files, status, result>>
    /\ UNCHANGED <<tree, onDisk, ledgerFile, run, cwd, processed_folders,
                   year_dirs, yi, month_dirs, mi, sevenz_files, extracted_files,
                   entered, downloads, appended, committedBefore, prev>>

\* the loop over the archives is exhausted: ftp.cwd('..') back to the year;
\* a failure reaches the outer except
LeaveMonth ==
    /\ pc = "archive"
    /\ ai > Len(sevenz_files)
    /\ \E o \in FtpOutcomes :
          IF o = "ok"
          THEN /\ cwd' = CdUp(cwd)
               /\ pc' = "commit"
               /\ UNCHANGED <<status, result, faults>>
          ELSE /\ Abort("cwd_up_month", o, cwd)
               /\ UNCHANGED cwd
    /\ UNCHANGED <<tree, onDisk, ledgerFile, run, processed_folders, loopVars, dataVars, histVars>>

\* processed_folders.add(key); append the key to the ledger file; an OSError
\* of open (nothing happens to the file) or of the write (none or only the
\* first bytes of the line are in the file) reaches the outer except
Commit ==
    /\ pc = "commit"
    /\ processed_folders' = processed_folders \cup {CurKey}
    /\ \E opened \in BOOLEAN, written \in 0..Len(LedgerLine(CurKey)) :
          CASE ~opened ->
                   /\ written = 0
                   /\ Abort("ledger_write", "fail", cwd)
                   /\ UNCHANGED <<onDisk, ledgerFile, appended, mi>>
            [] opened /\ written < Len(LedgerLine(CurKey)) ->
                   /\ onDisk' = onDisk \cup {"ledger"}
                   /\ ledgerFile' = ledgerFile \o SubSeq(LedgerLine(CurKey), 1, written)
                   /\ Abort("ledger_write", "fail", cwd)
                   /\ UNCHANGED <<appended, mi>>
            [] OTHER ->
                   /\ onDisk' = onDisk \cup {"ledger"}
                   /\ ledgerFile' = ledgerFile \o LedgerLine(CurKey)
                   /\ appended' = Append(appended, <<CurYear, CurMonth>>)
                   /\ mi' = mi + 1
                   /\ pc' = "month"
                   /\ UNCHANGED <<status, result, faults>>
    /\ UNCHANGED <<tree, run, cwd, year_dirs, yi, month_dirs, sevenz_files, ai,
                   extracted_files, ei, dataVars, entered, downloads, attempted, committedBefore, prev>>

\* the run is stopped from outside (the process is killed; an interrupt, which
\* no except clause of the function handles, ends it the same way): nothing
\* is returned. What is on disk stays as it is, except that a stop before the
\* ledger is read comes before or after output_dir was created, a stop while
\* a member is being copied can leave a part or all of that file, and a stop
\* while the ledger line is being written leaves the file created and none,
\* some or all of the bytes of the line in it
Crash ==
    /\ pc # "done"
    /\ status' = "Crashed"
    /\ pc' = "done"
    /\ \/ /\ pc # "load"
          /\ faults' = faults \cup {Fault("crash", "kill", cwd)}
          /\ UNCHANGED <<onDisk, ledgerFile, store, appended>>
       \/ /\ pc = "load"
          /\ faults' = faults \cup {Fault("crash", "kill", cwd)}
          /\ \E made \in SUBSET {"output_dir"} : onDisk' = onDisk \cup made
          /\ UNCHANGED <<ledgerFile, store, appended>>
       \/ /\ pc = "member"
          /\ Qualifies(CurFile)
          /\ faults' = faults \cup {Fault("crash", "kill", cwd)}
          /\ \E o \in {"partial", "stat"} :
                store' = Copied(o, PermanentFilename(CurFile, CurMonth),
                                CurMember.content, store)
          /\ UNCHANGED <<onDisk, ledgerFile, appended>>
       \/ /\ pc = "commit"
          /\ faults' = faults \cup {Fault("crash", "ledger_write", cwd)}
          /\ onDisk' = onDisk \cup {"ledger"}
          /\ \E written \in 0..Len(LedgerLine(CurKey)) :
                /\ ledgerFile' = ledgerFile \o SubSeq(LedgerLine(CurKey), 1, written)
                /\ appended' = IF written = Len(LedgerLine(CurKey))
                               THEN Append(appended, <<CurYear, CurMonth>>)
                               ELSE appended
          /\ UNCHANGED store
    /\ UNCHANGED <<tree, run, result, cwd, processed_folders, loopVars,
                   all_dataframes, saved_files, entered, downloads, attempted,
                   committedBefore, prev>>

\* the failures of a run that come from the environment; a parse attempt that
\* raises is decided by the content of the member, a ledger that cannot be
\* decoded by the bytes of the file
Injected(fs) == {f \in fs : f.op \notin {"read_csv", "decode", "ledger_decode"}}

\* every <<year, month>> of directories the remote holds
RemoteMonthDirs ==
    {<<p[2], p[3]>> : p \in {q \in DOMAIN tree.dirs : Len(q) = 3}}

\* the script is started again: a new process, the same remote, ledger file
\* and output directory
Restart ==
    /\ pc = "done"
    /\ run < MaxRuns
    /\ run' = run + 1
    /\ committedBefore' =
          {ym \in RemoteMonthDirs :
              \E i \in 1..Len(FileLines(ledgerFile)) :
                 Strip(FileLines(ledgerFile)[i]) = Utf8Encode(FolderKey(ym[1], ym[2]))}
    /\ prev' = LET inMonth == status # "Completed" /\ Len(cwd) = 3 /\ attempted # {}
               IN  [clean     |-> (/\ status = "Completed"
                                   /\ Injected(faults) = {}),
                    inside    |-> IF inMonth THEN <<cwd[2], cwd[3]>> ELSE <<>>,
                    attempted |-> IF inMonth THEN attempted ELSE {},
                    failures  |-> prev.failures + Cardinality(Injected(faults))]
    /\ pc' = "load"
    /\ status' = "running"
    /\ result' = [tables |-> <<>>, files |-> <<>>]
    /\ cwd' = <<>>
    /\ processed_folders' = {}
    /\ year_dirs' = <<>> /\ yi' = 0
    /\ month_dirs' = <<>> /\ mi' = 0
    /\ sevenz_files' = <<>> /\ ai' = 0
    /\ extracted_files' = <<>> /\ ei' = 0
    /\ all_dataframes' = <<>>
    /\ saved_files' = <<>>
    /\ entered' = {}
    /\ downloads' = <<>>
    /\ attempted' = {}
    /\ faults' = {}
    /\ appended' = <<>>
    /\ UNCHANGED <<tree, onDisk, ledgerFile, store>>

\* the run stays within the number of failures allowed
WithinBudget == prev.failures + Cardinality(Injected(faults)) <= MaxFaults

Next ==
    \/ Load /\ WithinBudget'
    \/ Connect /\ WithinBudget'
    \/ Login /\ WithinBudget'
    \/ CwdBase /\ WithinBudget'
    \/ ListYears /\ WithinBudget'
    \/ EnterYear /\ WithinBudget'
    \/ Finish /\ WithinBudget'
    \/ ListMonths /\ WithinBudget'
    \/ SkipMonth
    \/ EnterMonth /\ WithinBudget'
    \/ LeaveYear /\ WithinBudget'
    \/ ListArchives /\ WithinBudget'
    \/ Fetch /\ WithinBudget'
    \/ Extract /\ WithinBudget'
    \/ SkipMember
    \/ SaveMember /\ WithinBudget'
    \/ LeaveMonth /\ WithinBudget'
    \/ Commit /\ WithinBudget'
    \/ Crash /\ WithinBudget'
    \/ Restart

Spec == Init /\ [][Next]_vars

(* ------------------------------------------------------------------ *)
(* Properties                                                          *)
(* ------------------------------------------------------------------ *)

\* the <<year, month>> of a path base/year/month/...
MonthOf(path) == <<path[2], path[3]>>

AppendedSet == {appended[i] : i \in 1..Len(appended)}

HasFault(op) == \E f \in faults : f.op = op

\* the write of a ledger line was cut short in this run, by an error or a kill
LedgerWriteCut ==
    \E f \in faults : f.op = "ledger_write" \/ (f.op = "crash" /\ f.kind = "ledger_write")

\* C1 (resume correctness): a month whose FolderKey is a line of the ledger
\* file when the run starts is never entered (no cwd into it) by that run, and
\* no archive under it is downloaded or extracted, whatever failures occur.
C1_ResumeCorrectness ==
    /\ \A e \in entered : e \notin committedBefore
    /\ \A i \in 1..Len(downloads) : MonthOf(downloads[i]) \notin committedBefore
    /\ pc \in {"list_archives", "archive", "extract", "member", "commit"}
          => <<CurYear, CurMonth>> \notin committedBefore

\* C2 (idempotence): after a first run that ended Completed without meeting
\* any failure, a second run against the unchanged remote, started from the
\* ledger the first run left, writes no ledger entry, enters no month and
\* downloads no archive.
C2_Idempotence ==
    (run >= 2 /\ prev.clean) => (appended = <<>> /\ downloads = <<>> /\ entered = {})

\* C3 (fetch-failure containment): a failed download of one archive skips
\* only that archive; the run goes on (it is not aborted by the failure).
C3_FetchFailureContained ==
    HasFault("retr") => status = "running" \/ status = "Completed"

Range(seq) == {seq[i] : i \in 1..Len(seq)}

Parent(path) == SubSeq(path, 1, Len(path) - 1)

IsPrefix(s, t) == Len(s) <= Len(t) /\ SubSeq(t, 1, Len(s)) = s

\* the text of the FolderKey "{year}/{yearmonth}" of a <<year, month>>
KeyText(ym) == ym[1] \o <<"/">> \o ym[2]

\* the bytes of that text in the ledger file
KeyBytes(ym) == Utf8Encode(KeyText(ym))

\* the archives and the months the remote holds
RemoteArchives(monthPath) ==
    {a \in Range(tree.dirs[monthPath]) : EndsWith(Lower(a), <<".", "7", "z">>)}

RemoteMonths(yearPath) ==
    {m \in Range(tree.dirs[yearPath]) :
        Len(m) = 6 /\ IsDigit(m) /\ SubSeq(m, 1, 4) = yearPath[Len(yearPath)]}

\* the step on which the extraction of the current archive fails
ExtractFails == pc = "extract" /\ \E f \in faults' \ faults : f.op = "extract"

\* the processing of the archive was ended by an exception caught at the
\* archive (raised while opening or extracting it, or by save_extracted_file)
CutShort(archivePath) ==
    \E g \in faults : \/ (g.op = "extract" /\ g.at = archivePath)
                       \/ (g.op = "save_raise" /\ Parent(g.at) = archivePath)

\* the members of archive b of one month are persisted and decoded, save
\* for those whose copy failed
Persisted(archivePath) ==
    LET members == tree.arch[archivePath]
        month   == archivePath[3]
    IN  \A i \in 1..Len(members) :
           LET name == members[i].name
               path == output_dir \o <<"/">> \o month \o <<"_">> \o name
           IN  (/\ \/ EndsWith(Lower(name), <<".", "c", "s", "v">>)
                   \/ EndsWith(Lower(name), <<".", "t", "x", "t">>)
                /\ ~\E f \in faults : f.op = "save" /\ f.at = path
                /\ ~\E f \in faults : f.op = "save_raise" /\ f.at = archivePath \o <<name>>)
               => /\ path \in Range(saved_files)
                  /\ members[i].parses # {} =>
                        (month \o <<"_">> \o name) \in DOMAIN all_dataframes

C4_Contained ==
    /\ pc = "commit" => \A i \in 1..Len(sevenz_files) : sevenz_files[i] \in attempted
    /\ status = "Completed" =>
          \A f \in faults : f.op = "extract" =>
             LET monthPath == Parent(f.at)
                 yearPath  == Parent(monthPath)
             IN  /\ MonthOf(f.at) \in AppendedSet
                 /\ \A b \in RemoteArchives(monthPath) :
                       /\ monthPath \o <<b>> \in Range(downloads)
                       /\ ~CutShort(monthPath \o <<b>>)
                             => Persisted(monthPath \o <<b>>)
                 /\ \A m \in RemoteMonths(yearPath) :
                       \/ <<f.at[2], m>> \in committedBefore
                       \/ <<f.at[2], m>> \in entered

\* C4 (extract-failure containment): an archive that fails to open or
\* decompress ends only its own processing: the step leaves the run running
\* at the next archive of the same month with the session, the month list,
\* the ledger and the results untouched; when the run then ends Completed the
\* month is committed (after every listed archive was attempted), every
\* sibling archive was downloaded and the members of the siblings that
\* extracted are persisted and decoded, and the other months of the year
\* were entered.
C4_ExtractFailureContained ==
    /\ []C4_Contained
    /\ [][ExtractFails =>
            /\ status' = "running"
            /\ pc' = "archive"
            /\ ai' = ai + 1
            /\ UNCHANGED <<cwd, year_dirs, yi, month_dirs, mi, sevenz_files,
                           processed_folders, ledgerFile, all_dataframes,
                           saved_files, store>>]_vars

\* archive b.7z of 2024/202402 failed to extract (it comes first in the
\* listing), A.7Z of the same month produced its table, the run Completed
C4_Witness ==
    /\ status = "Completed"
    /\ \E f \in faults : f.op = "extract" /\ f.at = BaseDir \o <<Y2024, M202402, NArcB>>
    /\ ~\E f \in faults : f.op = "extract" /\ f.at = BaseDir \o <<Y2024, M202402, NArcA>>
    /\ <<Y2024, M202401>> \in AppendedSet
    /\ <<Y2024, M202402>> \in AppendedSet
    /\ (M202402 \o <<"_">> \o NACsv) \in DOMAIN all_dataframes

\* C5 (ledger commit point): the ledger line of month M is written only
\* after every archive that exists in M on the remote has been attempted and
\* after the session is back in the enclosing year.
C5_CommitPoint ==
    pc = "commit" =>
        /\ cwd = BaseDir \o <<CurYear>>
        /\ \A a \in RemoteArchives(BaseDir \o <<CurYear, CurMonth>>) : a \in attempted

C6_Visible ==
    /\ \A ym \in committedBefore \cup AppendedSet :
          \E i \in 1..Len(FileLines(ledgerFile)) :
             FileLines(ledgerFile)[i] \in {KeyBytes(ym) \o <<"\n">>, KeyBytes(ym)}
    /\ pc \notin {"load", "done"} =>
          \A ym \in committedBefore \cup AppendedSet :
             AlreadyProcessed(KeyText(ym), processed_folders)

\* C6 (ledger durability and monotonicity): every key committed by this run
\* or found in the ledger when the run started, also after a run that ended
\* Aborted, is a line of the ledger file (so that every later run reads it)
\* and is found by every membership check made after the load; the ledger
\* file only grows by appending.
C6_LedgerDurable ==
    /\ []C6_Visible
    /\ [][IsPrefix(ledgerFile, ledgerFile')]_vars

\* the step on which cwd into the current year / month is rejected
YearNavFails  == pc = "year"  /\ \E f \in faults' \ faults : f.op = "cwd_year"  /\ f.kind = "perm"
MonthNavFails == pc = "month" /\ \E f \in faults' \ faults : f.op = "cwd_month" /\ f.kind = "perm"

C7_SubtreeSkipped ==
    /\ \A f \in faults : f.op = "cwd_year" =>
          /\ \A e \in entered : e[1] # f.at[2]
          /\ \A d \in Range(downloads) : d[2] # f.at[2]
          /\ \A a \in AppendedSet : a[1] # f.at[2]
    /\ \A f \in faults : f.op = "cwd_month" =>
          /\ \A d \in Range(downloads) : MonthOf(d) # MonthOf(f.at)
          /\ MonthOf(f.at) \notin AppendedSet

\* C7 (navigation-failure containment): a cwd into a year or a month that
\* the server rejects leaves the run running at the next sibling, the
\* session where it was and the ledger and results untouched; nothing under
\* that year or month is downloaded and its FolderKey is not committed.
C7_NavigationFailureContained ==
    /\ []C7_SubtreeSkipped
    /\ [][YearNavFails =>
            /\ status' = "running" /\ pc' = "year" /\ yi' = yi + 1
            /\ UNCHANGED <<cwd, year_dirs, ledgerFile, processed_folders, downloads,
                           all_dataframes, saved_files, store>>]_vars
    /\ [][MonthNavFails =>
            /\ status' = "running" /\ pc' = "month" /\ mi' = mi + 1
            /\ UNCHANGED <<cwd, year_dirs, yi, month_dirs, ledgerFile, processed_folders,
                           downloads, all_dataframes, saved_files, store>>]_vars

\* month 2024/202401 and year 2025 were rejected, month 2024/202402 was
\* processed and committed, the run Completed
C7_Witness ==
    /\ status = "Completed"
    /\ \E f \in faults : f.op = "cwd_month" /\ f.kind = "perm" /\ MonthOf(f.at) = <<Y2024, M202401>>
    /\ \E f \in faults : f.op = "cwd_year" /\ f.kind = "perm" /\ f.at[2] = Y2025
    /\ <<Y2024, M202402>> \in AppendedSet
    /\ downloads # <<>>

\* C8 (fatal failures): once the connection, the login or the navigation to
\* the base path has failed, the run is over and Aborted, it returns no table
\* and no saved file, and it has written no ledger entry (nor entered a
\* month or downloaded anything).
C8_FatalFailures ==
    (HasFault("connect") \/ HasFault("login") \/ HasFault("cwd_base")) =>
        /\ pc = "done"
        /\ status = "Aborted"
        /\ result.tables = <<>>
        /\ result.files = <<>>
        /\ appended = <<>>
        /\ entered = {}
        /\ downloads = <<>>

\* a later run that was aborted at the base path, with the ledger of the
\* earlier run still in place
C8_Witness ==
    /\ run = 2
    /\ committedBefore # {}
    /\ status = "Aborted"
    /\ \E f \in faults : f.op = "cwd_base" /\ f.kind = "perm"
    /\ LedgerReadable(ledgerFile)
    /\ LoadLedger(ledgerFile) = {KeyText(ym) : ym \in committedBefore}

\* C9 (push/pop discipline of the remote working directory): in a run that
\* has not aborted, the session is in the base directory whenever a year is
\* about to be entered and when the run has Completed, in the enclosing year
\* whenever months are listed, skipped, entered or committed, and in the
\* month whenever its archives are listed, retrieved and extracted.
C9_PushPop ==
    status # "Aborted" =>
        /\ pc \in {"list_years", "year"} => cwd = <<base_ftp_path>>
        /\ pc \in {"list_months", "month", "commit"} => cwd = <<base_ftp_path, CurYear>>
        /\ pc \in {"list_archives", "archive", "extract", "member"}
              => cwd = <<base_ftp_path, CurYear, CurMonth>>
        /\ status = "Completed" => cwd = <<base_ftp_path>>

\* a Completed run that skipped ledgered months, met a rejected month and
\* entered another month
C9_Witness ==
    /\ run = 2
    /\ status = "Completed"
    /\ committedBefore # {}
    /\ HasFault("cwd_month")
    /\ downloads # <<>>
    /\ cwd = <<base_ftp_path>>

\* C10 (end-to-end scenario): on the remote base/2024/202401/file1.7z holding
\* a decodable a.csv plus an empty base/2024/202402/, a first run without
\* failures ends Completed with the ledger holding exactly 2024/202401 and
\* 2024/202402, the output directory holding exactly 202401_a.csv, and the
\* result holding exactly one table, keyed 202401_a.csv.
C10_EndToEnd ==
    (tree = TreeE2E /\ run = 1 /\ pc = "done" /\ faults = {}) =>
        /\ status = "Completed"
        /\ ledgerFile = <<"2", "0", "2", "4", "/", "2", "0", "2", "4", "0", "1", "\n", "2", "0", "2", "4", "/", "2", "0", "2", "4", "0", "2", "\n">>
        /\ processed_folders = {<<"2", "0", "2", "4", "/", "2", "0", "2", "4", "0", "1">>,
                                <<"2", "0", "2", "4", "/", "2", "0", "2", "4", "0", "2">>}
        /\ DOMAIN store = {<<"2", "0", "2", "4", "0", "1", "_", "a", ".", "c", "s", "v">>}
        /\ store[<<"2", "0", "2", "4", "0", "1", "_", "a", ".", "c", "s", "v">>] = [content |-> "a", whole |-> TRUE]
        /\ saved_files = <<<<"d", "a", "d", "o", "s", "/", "2", "0", "2", "4", "0", "1", "_", "a", ".", "c", "s", "v">>>>
        /\ DOMAIN all_dataframes = {<<"2", "0", "2", "4", "0", "1", "_", "a", ".", "c", "s", "v">>}
        /\ all_dataframes[<<"2", "0", "2", "4", "0", "1", "_", "a", ".", "c", "s", "v">>] = [content |-> "a", attempt |-> 1]
        /\ result = [tables |-> all_dataframes, files |-> saved_files]

C10_Witness ==
    /\ tree = TreeE2E
    /\ run = 1
    /\ pc = "done"
    /\ faults = {}
    /\ Len(saved_files) = 1

(* ------------------------------------------------------------------ *)
(* Filters, decoding, containment, ordering (C11 - C20)                *)
(* ------------------------------------------------------------------ *)

\* the run is inside the year loop and the listing of the base directory was
\* answered
YearsListed ==
    /\ pc \in {"year", "list_months", "month", "list_archives", "archive",
               "extract", "member", "commit"}
    /\ ~ \E f \in faults : f.op = "nlst" /\ f.at = BaseDir

DecimalDigits == {"0", "1", "2", "3", "4", "5", "6", "7", "8", "9"}

FourDigits(l) ==
    {l[i] : i \in {j \in 1..Len(l) : /\ Len(l[j]) = 4
                                     /\ \A k \in 1..4 : l[j][k] \in DecimalDigits}}

\* C11 as stated: the years the run iterates over are all the listed names of
\* four decimal digits (no allow-list being configured), so the listing
\* 2023, 2024x, 24, 202401, 2024ab, readme.txt yields exactly 2023.
C11_Original ==
    YearsListed =>
        /\ Range(year_dirs) = FourDigits(tree.dirs[BaseDir])
        /\ tree = TreeFilter => Range(year_dirs) = {<<"2", "0", "2", "3">>}

\* C11 (year filter), amended: the years the run iterates over and enters are
\* the listed names of four decimal digits that are "2024" or "2025"; the
\* listing 2023, 2024x, 24, 202401, 2024ab, readme.txt yields no year at all.
C11_YearFilter ==
    /\ YearsListed =>
          /\ Range(year_dirs) = FourDigits(tree.dirs[BaseDir])
                                  \cap {<<"2", "0", "2", "4">>, <<"2", "0", "2", "5">>}
          /\ tree = TreeFilter => year_dirs = <<>>
    /\ \A ym \in entered :
          ym[1] \in FourDigits(tree.dirs[BaseDir])
                      \cap {<<"2", "0", "2", "4">>, <<"2", "0", "2", "5">>}

\* the filter has run on the listing 2023, 2024x, 24, 202401, 2024ab,
\* readme.txt and kept nothing
C11_Witness ==
    /\ tree = TreeFilter
    /\ pc = "year"
    /\ faults = {}
    /\ year_dirs = <<>>

\* the run is inside the month loop of the year cwd[2] and the listing of that
\* year was answered
MonthsListed ==
    /\ pc \in {"month", "list_archives", "archive", "extract", "member", "commit"}
    /\ ~ \E f \in faults : f.op = "nlst" /\ f.at = <<cwd[1], cwd[2]>>

SixDigitsOf(l, y) ==
    {l[i] : i \in {j \in 1..Len(l) : /\ Len(l[j]) = 6
                                     /\ \A k \in 1..6 : l[j][k] \in DecimalDigits
                                     /\ \A k \in 1..4 : l[j][k] = y[k]}}

\* C12 (month filter): inside year Y the months the run iterates over are
\* exactly the listed names of six decimal digits whose first four characters
\* are Y; the children 202402, 202413x, 202401, 202501 of 2024 yield 202401 and
\* 202402, and no month is entered under a year that is not its prefix.
C12_MonthFilter ==
    /\ MonthsListed =>
          /\ Range(month_dirs) = SixDigitsOf(tree.dirs[<<cwd[1], cwd[2]>>], cwd[2])
          /\ (tree = TreeMulti /\ cwd[2] = <<"2", "0", "2", "4">>) =>
                Range(month_dirs) = {<<"2", "0", "2", "4", "0", "1">>,
                                     <<"2", "0", "2", "4", "0", "2">>}
    /\ \A ym \in entered : ym[2] \in SixDigitsOf(<<ym[2]>>, ym[1])

\* the step on which the current member is copied to the output directory and
\* handed to the parser
MemberPersisted == pc = "member" /\ Len(saved_files') = Len(saved_files) + 1

\* the parse attempts that raised on this step
FailedAttempts == {f.kind : f \in {g \in faults' \ faults : g.op = "read_csv"}}

\* C13 (decoder fallback order): for a persisted member the attempts are made
\* in the order 1 (';', latin-1), 2 (',', utf-8), 3 (';', windows-1252): the
\* attempts that raised are exactly those before the first one the content
\* parses under, the table stored is the result of that attempt, and a member
\* that fails under attempt 1 but parses under attempt 2 yields the table of
\* attempt 2 and no decode error; when no attempt parses, all three raised.
C13_DecoderFallback ==
    [][MemberPersisted =>
          LET ok == CurMember.parses
          IN  IF ok = {}
              THEN FailedAttempts = {1, 2, 3}
              ELSE LET first == CHOOSE n \in ok : \A k \in ok : n <= k
                   IN  /\ FailedAttempts = 1..(first - 1)
                       /\ \E key \in DOMAIN all_dataframes' :
                             all_dataframes'[key] =
                                [content |-> CurMember.content, attempt |-> first]
                       /\ ~ \E f \in faults' \ faults : f.op = "decode"
                       /\ (1 \notin ok /\ 2 \in ok) => first = 2]_vars

\* a table produced by the second attempt after the first one raised
C13_Witness ==
    /\ \E key \in DOMAIN all_dataframes : all_dataframes[key].attempt = 2
    /\ \E f \in faults : f.op = "read_csv" /\ f.kind = 1
    /\ ~ \E f \in faults : f.op = "read_csv" /\ f.kind = 2

\* the step on which the last of the three parse attempts raised
DecodeFails == pc = "member" /\ \E f \in faults' \ faults : f.op = "decode"

\* <<year, month>> of a file of the output directory, from its month prefix
MonthOfFile(path) ==
    LET m == SubSeq(path, Len(output_dir) + 2, Len(output_dir) + 7)
    IN  <<SubSeq(m, 1, 4), m>>

C14_Contained ==
    /\ \A p \in DOMAIN tree.arch : \A i \in 1..Len(tree.arch[p]) :
          tree.arch[p][i].parses = {} =>
             ~ \E key \in DOMAIN all_dataframes :
                  all_dataframes[key].content = tree.arch[p][i].content
    /\ \A f \in faults : f.op = "decode" =>
          /\ f.at \in Range(saved_files)
          /\ \E name \in DOMAIN store : output_dir \o <<"/">> \o name = f.at
          /\ status = "Completed" =>
                LET ym        == MonthOfFile(f.at)
                    monthPath == BaseDir \o ym
                IN  /\ ym \in AppendedSet
                    /\ \A b \in RemoteArchives(monthPath) :
                          /\ monthPath \o <<b>> \in Range(downloads)
                          /\ ~CutShort(monthPath \o <<b>>)
                                => Persisted(monthPath \o <<b>>)

\* C14 (decode-failure containment): a persisted member that no parse attempt
\* accepts produces no table and ends only its own processing: the step keeps
\* the run running at the next member or archive, the file stays in the
\* output directory and is appended to saved_files, the tables, the session
\* and the ledger are untouched; when the run then ends Completed the month
\* is committed, all its archives were downloaded and the members of those
\* that extracted are persisted and, when parseable, decoded.
C14_DecodeFailureContained ==
    /\ []C14_Contained
    /\ [][DecodeFails =>
            /\ status' = "running"
            /\ \/ pc' = "member" /\ ei' = ei + 1 /\ ai' = ai
               \/ pc' = "archive" /\ ai' = ai + 1 /\ ei = Len(extracted_files)
            /\ Len(saved_files') = Len(saved_files) + 1
            /\ \E name \in DOMAIN store' :
                  output_dir \o <<"/">> \o name = saved_files'[Len(saved_files')]
            /\ UNCHANGED <<cwd, year_dirs, yi, month_dirs, mi, sevenz_files,
                           extracted_files, processed_folders, ledgerFile,
                           all_dataframes>>]_vars

\* B.TXT of b.7z was persisted and failed every parse attempt, a.csv of the
\* same archive and A.7Z of the same month were processed after it, the
\* month was committed and the run Completed
C14_Witness ==
    /\ status = "Completed"
    /\ \E f \in faults : f.op = "decode" /\ f.at = output_dir \o <<"/">> \o M202402 \o <<"_">> \o NBTxt
    /\ ~ \E f \in faults : f.op \in {"extract", "save"}
    /\ Len(saved_files) = 4
    /\ <<Y2024, M202402>> \in AppendedSet
    /\ \E key \in DOMAIN all_dataframes : all_dataframes[key].content = "A/a"

\* C15 (a key is created at most once per run): within one run no path of the
\* output directory is written, and appended to saved_files, a second time,
\* and no step replaces the table held under a key or the content of a file
\* of the output directory, also when several archives of a month hold a
\* member of the same name.
C15_CreatedOnce ==
    /\ [](\A i, j \in 1..Len(saved_files) : saved_files[i] = saved_files[j] => i = j)
    /\ [][pc = "member" =>
            /\ \A key \in DOMAIN all_dataframes :
                  all_dataframes'[key] = all_dataframes[key]
            /\ \A name \in DOMAIN store :
                  output_dir \o <<"/">> \o name \in Range(saved_files)
                     => store'[name] = store[name]]_vars

\* the step on which the server rejects NLST in the current directory
ListingRejected ==
    /\ pc \in {"list_years", "list_months", "list_archives"}
    /\ \E f \in faults' \ faults : f.op = "nlst" /\ f.kind = "perm" /\ f.at = cwd

NlstRejectedAt(path) == \E f \in faults : f.op = "nlst" /\ f.kind = "perm" /\ f.at = path

\* after a run that met a rejected listing and ended Completed: every month
\* the remote lists under a year that was entered and listed was visited in
\* this run or committed by an earlier one, and a month whose own listing was
\* rejected was committed as a month without archives
C16_OthersVisited ==
    (status = "Completed" /\ \E f \in faults : f.op = "nlst" /\ f.kind = "perm") =>
        /\ NlstRejectedAt(BaseDir) => entered = {}
        /\ ~NlstRejectedAt(BaseDir) =>
              \A y \in FourDigits(tree.dirs[BaseDir])
                          \cap {<<"2", "0", "2", "4">>, <<"2", "0", "2", "5">>} :
                 IF NlstRejectedAt(BaseDir \o <<y>>)
                 THEN \A e \in entered : e[1] # y
                 ELSE (~\E f \in faults : f.op = "cwd_year" /\ f.at = BaseDir \o <<y>>) =>
                         \A m \in SixDigitsOf(tree.dirs[BaseDir \o <<y>>], y) :
                            <<y, m>> \in committedBefore \cup entered
        /\ \A f \in faults : (f.op = "nlst" /\ Len(f.at) = 3) =>
              /\ MonthOf(f.at) \in AppendedSet
              /\ \A d \in Range(downloads) : MonthOf(d) # MonthOf(f.at)

\* C16 (listing-failure degradation): a listing command the server rejects,
\* at the base path, inside a year or inside a month, is taken as an empty
\* listing: the step leaves the run running at the head of the loop over that
\* (empty) list, with the session and the ledger untouched, and the years and
\* months outside the directory that could not be listed are still visited.
C16_ListingFailureDegrades ==
    /\ []C16_OthersVisited
    /\ [][ListingRejected =>
            /\ status' = "running"
            /\ pc = "list_years"    => (year_dirs' = <<>>    /\ pc' = "year")
            /\ pc = "list_months"   => (month_dirs' = <<>>   /\ pc' = "month")
            /\ pc = "list_archives" => (sevenz_files' = <<>> /\ pc' = "archive")
            /\ UNCHANGED <<cwd, ledgerFile, processed_folders, downloads,
                           all_dataframes, saved_files, store>>]_vars

\* the listing of year 2024 was rejected, year 2025 was entered after it and
\* its month visited, the run Completed
C16_Witness ==
    /\ tree = TreeMulti
    /\ status = "Completed"
    /\ NlstRejectedAt(BaseDir \o <<Y2024>>)
    /\ <<Y2025, M202501>> \in entered
    /\ <<Y2025, M202501>> \in AppendedSet

\* the code points of the characters a visited directory name can hold
CodePoint ==
    ("0" :> 48) @@ ("1" :> 49) @@ ("2" :> 50) @@ ("3" :> 51) @@ ("4" :> 52) @@
    ("5" :> 53) @@ ("6" :> 54) @@ ("7" :> 55) @@ ("8" :> 56) @@ ("9" :> 57) @@
    ("²" :> 178) @@ ("³" :> 179) @@ ("¹" :> 185)

\* names of equal length in ascending order (for names of decimal digits
\* only, the order of the numbers they denote)
NameBefore(a, b) ==
    \E i \in 1..Len(a) :
       /\ CodePoint[a[i]] < CodePoint[b[i]]
       /\ \A j \in 1..(i - 1) : a[j] = b[j]

\* <<year, month>> pairs in the order of their FolderKeys "year/month"
KeyBefore(a, b) ==
    \/ NameBefore(a[1], b[1])
    \/ a[1] = b[1] /\ NameBefore(a[2], b[2])

C17_Ascending ==
    /\ \A i, j \in 1..Len(appended) : i < j => KeyBefore(appended[i], appended[j])
    /\ \A i, j \in 1..Len(downloads) :
          i < j => ~KeyBefore(MonthOf(downloads[j]), MonthOf(downloads[i]))

\* C17 (visit order): within a run the years are entered in ascending order
\* and the months of a year in ascending order, whatever the order of the
\* remote listings: a year is entered after every month visited so far in
\* this run belongs to a smaller year, a month is entered (and committed)
\* after every month visited or committed so far in this run has a smaller
\* key, downloads follow the same order, and the FolderKeys one run appends
\* to the ledger are strictly ascending.
C17_VisitOrder ==
    /\ []C17_Ascending
    /\ [][(pc = "year" /\ pc' = "list_months") =>
            \A e \in entered : NameBefore(e[1], cwd'[2])]_vars
    /\ [][(pc = "month" /\ entered' # entered) =>
            \A new \in entered' \ entered :
               /\ \A e \in entered : KeyBefore(e, new)
               /\ \A a \in AppendedSet : KeyBefore(a, new)]_vars
    /\ [][Len(appended') > Len(appended) =>
            \A e \in entered : ~KeyBefore(appended'[Len(appended')], e)]_vars

\* listings that come as 2025, 2024 and 202402, 202401, and a run that
\* committed 2024/202401, 2024/202402, 2025/202501 in that order
C17_Witness ==
    /\ tree = TreeMulti
    /\ status = "Completed"
    /\ appended = <<<<Y2024, M202401>>, <<Y2024, M202402>>, <<Y2025, M202501>>>>
    /\ Len(downloads) = 3

\* the previous run ended, Aborted or killed, with the session inside a month
\* some of whose archives had been processed
InterruptedInMonth ==
    /\ run >= 2
    /\ prev.inside # <<>>
    /\ prev.attempted # {}

\* the run ended Completed and no year or month was left out of it by a
\* rejected cwd or by a rejected listing of the base directory or of a year
WalkedThrough ==
    /\ status = "Completed"
    /\ ~ \E f \in faults : \/ f.op \in {"cwd_year", "cwd_month"}
                            \/ (f.op = "nlst" /\ Len(f.at) <= 2)

\* C18 (mid-month interruption): after a run that ended, by an abort or a
\* kill, inside month M with some archives of M processed, the ledger holds
\* no line for M and the next run does not skip M: when it has walked through
\* the remote it has committed M after downloading every archive of M again,
\* the ones the interrupted run had finished included, and persisting the
\* members of those it could process; the months whose keys were in the
\* ledger before the interruption are neither entered nor downloaded from.
C18_MidMonthInterruption ==
    InterruptedInMonth =>
        LET M         == prev.inside
            monthPath == BaseDir \o M
        IN  /\ M \notin committedBefore
            /\ prev.attempted \subseteq RemoteArchives(monthPath)
            /\ (M \notin AppendedSet /\ ~LedgerWriteCut) =>
                  ~ \E i \in 1..Len(FileLines(ledgerFile)) :
                       FileLines(ledgerFile)[i] \in {KeyBytes(M) \o <<"\n">>, KeyBytes(M)}
            /\ (status = "running" /\ pc # "load" /\ M \notin AppendedSet) =>
                  KeyText(M) \notin processed_folders
            /\ WalkedThrough =>
                  /\ M \in AppendedSet
                  /\ \A a \in RemoteArchives(monthPath) :
                        /\ monthPath \o <<a>> \in Range(downloads)
                        /\ ~CutShort(monthPath \o <<a>>) => Persisted(monthPath \o <<a>>)
            /\ \A c \in committedBefore :
                  /\ c \notin entered
                  /\ \A d \in Range(downloads) : MonthOf(d) # c

\* the step on which save_extracted_file fails for the current member: the
\* copy raises, or the function itself does
SaveFails == pc = "member" /\ \E f \in faults' \ faults : f.op \in {"save", "save_raise"}

C19_Contained ==
    status = "Completed" =>
        \A f \in faults : f.op \in {"save", "save_raise"} =>
           LET ym        == IF f.op = "save" THEN MonthOfFile(f.at) ELSE MonthOf(f.at)
               monthPath == BaseDir \o ym
           IN  /\ ym \in AppendedSet
               /\ \A b \in RemoteArchives(monthPath) :
                     /\ monthPath \o <<b>> \in Range(downloads)
                     /\ (~\E g \in faults : g.op = "extract" /\ g.at = monthPath \o <<b>>)
                           => Persisted(monthPath \o <<b>>)

\* C19 (storage-failure containment): a member whose copy to the output
\* directory fails ends only its own processing: the step keeps the run
\* running at the next member or archive, adds nothing to saved_files, makes
\* no parse attempt and creates no table, and leaves the session and the
\* ledger untouched; when the run then ends Completed the month is committed,
\* all its archives were downloaded and the other members of those that
\* extracted are persisted.
C19_StorageFailureContained ==
    /\ []C19_Contained
    /\ [][SaveFails =>
            /\ status' = "running"
            /\ \/ pc' = "member" /\ ei' = ei + 1 /\ ai' = ai
               \/ pc' = "archive" /\ ai' = ai + 1 /\ ei = Len(extracted_files)
            /\ ~ \E f \in faults' \ faults : f.op \in {"read_csv", "decode"}
            /\ UNCHANGED <<cwd, year_dirs, yi, month_dirs, mi, sevenz_files,
                           extracted_files, processed_folders, ledgerFile,
                           saved_files, all_dataframes>>]_vars

\* the file name of a path: what follows its last "/"
RECURSIVE BaseName(_)
BaseName(path) ==
    IF path = <<>> \/ path[Len(path)] = "/" THEN <<>>
    ELSE BaseName(SubSeq(path, 1, Len(path) - 1)) \o <<path[Len(path)]>>

\* C20 (tables and saved files): at every point of a run and in what it
\* returns, every key of all_dataframes is the file name of an entry of
\* saved_files and of a file of the output directory, and there are at most
\* as many tables as entries of saved_files.
C20_TablesAreSavedFiles ==
    /\ \A key \in DOMAIN all_dataframes :
          /\ \E i \in 1..Len(saved_files) : BaseName(saved_files[i]) = key
          /\ key \in DOMAIN store
    /\ Cardinality(DOMAIN all_dataframes) <= Len(saved_files)
    /\ pc = "done" =>
          \A key \in DOMAIN result.tables :
             \E i \in 1..Len(result.files) : BaseName(result.files[i]) = key

\* a run returned tables for c.txt of 202401 and a.csv of 202402 and four
\* saved files, among them B.TXT, which has no table
C20_Witness ==
    /\ tree = TreeMulti
    /\ status = "Completed"
    /\ pc = "done"
    /\ Cardinality(DOMAIN result.tables) = 2
    /\ Len(result.files) = 4
    /\ \E i \in 1..Len(result.files) : BaseName(result.files[i]) = M202402 \o <<"_">> \o NBTxt

====
